---- MODULE Spec2Model ----
(***************************************************************************)
(* Travel Agent Assistant API: the Flask gateway (backend/app.py), the     *)
(* Amadeus travel client (backend/amadeus_api.py) and the Sherpa visa      *)
(* client (backend/sherpa_api.py).                                         *)
(*                                                                         *)
(* Every handler is one action.  A handler's input is the query string of  *)
(* the GET request and the behaviour of the upstream provider for each     *)
(* call the handler makes; its output is the HTTP response, the client     *)
(* operations the gateway invoked and the calls that reached a provider.   *)
(***************************************************************************)
EXTENDS Integers, Sequences, FiniteSets, TLC

VARIABLES env, request, response, clientCalls, calls, raised

vars == <<env, request, response, clientCalls, calls, raised>>

(***************************************************************************)
(* Bounds of the model.                                                    *)
(***************************************************************************)
\* longest list of location matches the location search returns
MaxMatches == 2
\* longest list of offers / airports / activities a provider returns
MaxResults == 2

(***************************************************************************)
(* Python values.  Every value carries its type, so that truthiness is     *)
(* computed as Python computes it.  A str is a sequence of characters.     *)
(***************************************************************************)
PyNone == [t |-> "None"]
PyNum(n) == [t |-> "num", v |-> n]
PyStr(s) == [t |-> "str", v |-> s]
PyList(s) == [t |-> "list", v |-> s]
PyDict(f) == [t |-> "dict", v |-> f]

\* `x is not None` in place of the truthiness of a str
TruthyEmptyStr(x) ==
    CASE x.t = "None" -> FALSE
      [] x.t = "num" -> x.v # 0
      [] x.t = "str" -> TRUE
      [] x.t = "list" -> Len(x.v) # 0
      [] x.t = "dict" -> DOMAIN x.v # {}

\* `x is not None` in place of the truthiness of a list
TruthyEmptyList(x) ==
    CASE x.t = "None" -> FALSE
      [] x.t = "num" -> x.v # 0
      [] x.t = "str" -> Len(x.v) # 0
      [] x.t = "list" -> TRUE
      [] x.t = "dict" -> DOMAIN x.v # {}

\* bool(x): None, 0, "", [] and {} are falsy
Truthy(x) ==
    CASE x.t = "None" -> FALSE
      [] x.t = "num" -> x.v # 0
      [] x.t = "str" -> Len(x.v) # 0
      [] x.t = "list" -> Len(x.v) # 0
      [] x.t = "dict" -> DOMAIN x.v # {}

\* all([...])
All(xs) == \A i \in DOMAIN xs : Truthy(xs[i])

\* d.get(k) of a dict
DictGet(d, k) == IF k \in DOMAIN d.v THEN d.v[k] ELSE PyNone

\* s.count(c)
RECURSIVE Count(_, _)
Count(s, c) ==
    IF s = <<>> THEN 0
    ELSE (IF Head(s) = c THEN 1 ELSE 0) + Count(Tail(s), c)

Lower ==
    <<"a", "b", "c", "d", "e", "f", "g", "h", "i", "j", "k", "l", "m",
      "n", "o", "p", "q", "r", "s", "t", "u", "v", "w", "x", "y", "z">>

Upper ==
    <<"A", "B", "C", "D", "E", "F", "G", "H", "I", "J", "K", "L", "M",
      "N", "O", "P", "Q", "R", "S", "T", "U", "V", "W", "X", "Y", "Z">>

\* one character of str.upper(): a lowercase letter becomes its capital,
\* every other character is kept
UpperChar(c) ==
    IF \E i \in DOMAIN Lower : Lower[i] = c
    THEN Upper[CHOOSE i \in DOMAIN Lower : Lower[i] = c]
    ELSE c

\* only the first character is capitalised
StrUpperFirst(s) == [i \in DOMAIN s |-> IF i = 1 THEN UpperChar(s[i]) ELSE s[i]]

\* str.upper()
StrUpper(s) == [i \in DOMAIN s |-> UpperChar(s[i])]

Digits == <<"0", "1", "2", "3", "4", "5", "6", "7", "8", "9">>

IsDigit(c) == \E i \in DOMAIN Digits : Digits[i] = c

DigitVal(c) == (CHOOSE i \in DOMAIN Digits : Digits[i] = c) - 1

RECURSIVE DigitsVal(_)
DigitsVal(s) ==
    IF s = <<>> THEN 0
    ELSE 10 * DigitsVal(SubSeq(s, 1, Len(s) - 1)) + DigitVal(s[Len(s)])

\* int(s) ignores surrounding whitespace
RECURSIVE Strip(_)
Strip(s) ==
    IF s # <<>> /\ Head(s) = " " THEN Strip(Tail(s))
    ELSE IF s # <<>> /\ s[Len(s)] = " " THEN Strip(SubSeq(s, 1, Len(s) - 1))
    ELSE s

\* int(s) succeeds: surrounding whitespace, an optional sign, at least one
\* digit
IntParses(s) ==
    LET t == Strip(s)
        body == IF t # <<>> /\ Head(t) \in {"-", "+"} THEN Tail(t) ELSE t
    IN  body # <<>> /\ \A i \in DOMAIN body : IsDigit(body[i])

\* int(s) where it succeeds
IntOf(s) ==
    LET t == Strip(s)
    IN  IF Head(t) = "-" THEN 0 - DigitsVal(Tail(t))
        ELSE IF Head(t) = "+" THEN DigitsVal(Tail(t))
        ELSE DigitsVal(t)

\* request.args.get(k)
ArgsGet(args, k) == IF k \in DOMAIN args THEN PyStr(args[k]) ELSE PyNone

\* a value that int() rejects is read as 0
ArgsGetIntZero(args, k, default) ==
    IF k \notin DOMAIN args THEN default
    ELSE IF IntParses(args[k]) THEN IntOf(args[k]) ELSE 0

\* request.args.get(k, default, type=int): the default when the parameter
\* is absent or int() raises ValueError
ArgsGetInt(args, k, default) ==
    IF k \in DOMAIN args /\ IntParses(args[k]) THEN IntOf(args[k]) ELSE default

(***************************************************************************)
(* Responses: jsonify(body), status.                                       *)
(***************************************************************************)
\* an f-string: the fixed text and the values interpolated into it
Msg(text, fargs) == [text |-> text, fargs |-> fargs]

Resp(status, body) == [status |-> status, body |-> body]

\* no exception reached the handler
NoException == [exc |-> "", escaped |-> FALSE]

\* what a handler run leaves behind
Run(resp, cc, pc) ==
    [response |-> resp, clientCalls |-> cc, calls |-> pc, raised |-> NoException]

\* a handler run in which exception exc reached an except clause of the
\* handler, which returned resp
Caught(exc, resp, cc, pc) ==
    [response |-> resp, clientCalls |-> cc, calls |-> pc,
     raised |-> [exc |-> exc, escaped |-> FALSE]]

\* a handler run in which exception exc left the handler: the framework
\* answers 500 with its own error page
Uncaught(exc, cc, pc) ==
    [response |-> Resp(500, [t |-> "html"]), clientCalls |-> cc, calls |-> pc,
     raised |-> [exc |-> exc, escaped |-> TRUE]]

\* what a client operation leaves behind: the value returned, the exception
\* raised ("" when none), the calls that reached the provider
Ret(v, pc) == [ret |-> v, raised |-> "", calls |-> pc]
Raise(exc, pc) == [ret |-> PyNone, raised |-> exc, calls |-> pc]

\* the gateway's record of one client invocation
Invoked(op, opargs, r) == [op |-> op, args |-> opargs, ret |-> r.ret, raised |-> r.raised]

(***************************************************************************)
(* Environment: the credentials os.getenv reads.                           *)
(***************************************************************************)
EnvVals == {PyNone, PyStr(<<>>), PyStr(<<"k">>)}

Envs == [AMADEUS_CLIENT_ID : EnvVals, AMADEUS_CLIENT_SECRET : EnvVals, SHERPA_API_KEY : EnvVals]

(***************************************************************************)
(* Amadeus provider behaviour for one SDK call.                            *)
(***************************************************************************)
\* provider records; the gateway does not look inside them
R1 == PyDict([id |-> "r1"])
R2 == PyDict([id |-> "r2"])

Items == {R1, R2}

RECURSIVE SeqsUpTo(_, _)
SeqsUpTo(S, n) ==
    IF n = 0 THEN {<<>>}
    ELSE LET shorter == SeqsUpTo(S, n - 1)
         IN  shorter \cup {Append(s, x) : s \in shorter, x \in S}

\* the partial maps over the keys ks with values from vals[k]: each key is
\* absent or has one of its values (a query string, a JSON object)
RECURSIVE PartialMaps(_, _)
PartialMaps(ks, vals) ==
    IF ks = {} THEN {<<>>}
    ELSE LET k == CHOOSE x \in ks : TRUE
             rest == PartialMaps(ks \ {k}, vals)
         IN  rest \cup {(k :> v) @@ q : v \in vals[k], q \in rest}

\* response.data of a search: absent, or a list of records
DataVals == {PyNone} \cup {PyList(s) : s \in SeqsUpTo(Items, MaxResults)}

\* Client(...) raises; the SDK call raises ResponseError (with its status
\* code) or another exception; or the call returns a response
Faults ==
    {[kind |-> "ClientInitError"], [kind |-> "Exception"]}
    \cup {[kind |-> "ResponseError", code |-> c] : c \in {429, 500}}

DataBehaviours == Faults \cup {[kind |-> "data", data |-> d] : d \in DataVals}

\* get_amadeus_client(): "ValueError" when a credential is missing or empty,
\* "Exception" when Client(...) raises, "" when the client is built
get_amadeus_client(e, b) ==
    IF ~Truthy(e.AMADEUS_CLIENT_ID) \/ ~Truthy(e.AMADEUS_CLIENT_SECRET) THEN "ValueError"
    ELSE IF b.kind = "ClientInitError" THEN "Exception"
    ELSE ""

\* a failed SDK call is attempted a second time
AmadeusCallRetry(e, b, api, params) ==
    IF get_amadeus_client(e, b) # "" THEN Ret(PyNone, <<>>)
    ELSE LET sent == <<[api |-> api, params |-> params, outcome |-> b]>>
         IN  IF b.kind = "data" THEN Ret(b.data, sent) ELSE Ret(PyNone, sent \o sent)

\* the configuration fault of get_amadeus_client is not caught
AmadeusCallRaises(e, b, api, params) ==
    IF get_amadeus_client(e, b) = "ValueError" THEN Raise("ValueError", <<>>)
    ELSE IF get_amadeus_client(e, b) # "" THEN Ret(PyNone, <<>>)
    ELSE LET sent == <<[api |-> api, params |-> params, outcome |-> b]>>
         IN  IF b.kind = "data" THEN Ret(b.data, sent) ELSE Ret(PyNone, sent)

\* a provider error is returned to the handler as its status code
AmadeusCallLeak(e, b, api, params) ==
    IF get_amadeus_client(e, b) # "" THEN Ret(PyNone, <<>>)
    ELSE LET sent == <<[api |-> api, params |-> params, outcome |-> b]>>
         IN  IF b.kind = "data" THEN Ret(b.data, sent)
             ELSE IF b.kind = "ResponseError" THEN Ret(PyNum(b.code), sent)
             ELSE Ret(PyNone, sent)

\* only the first record of response.data is returned
AmadeusCallFirst(e, b, api, params) ==
    IF get_amadeus_client(e, b) # "" THEN Ret(PyNone, <<>>)
    ELSE LET sent == <<[api |-> api, params |-> params, outcome |-> b]>>
         IN  IF b.kind = "data"
             THEN Ret(IF Truthy(b.data) THEN PyList(<<b.data.v[1]>>) ELSE b.data, sent)
             ELSE Ret(PyNone, sent)

\* the common shape of the Amadeus operations: build the client, make the one
\* SDK call, return response.data; every exception becomes None
AmadeusCall(e, b, api, params) ==
    IF get_amadeus_client(e, b) # "" THEN Ret(PyNone, <<>>)
    ELSE LET sent == <<[api |-> api, params |-> params, outcome |-> b]>>
         IN  IF b.kind = "data" THEN Ret(b.data, sent) ELSE Ret(PyNone, sent)

search_flights(e, b, origin, destination, departure_date, adults) ==
    AmadeusCall(e, b, "shopping.flight_offers_search",
                [originLocationCode |-> StrUpper(origin),
                 destinationLocationCode |-> StrUpper(destination),
                 departureDate |-> departure_date,
                 adults |-> adults])

get_nearest_airports(e, b, latitude, longitude) ==
    AmadeusCall(e, b, "reference_data.locations.airports",
                [latitude |-> latitude, longitude |-> longitude])

search_hotels(e, b, city_code) ==
    AmadeusCall(e, b, "shopping.hotel_offers", [cityCode |-> StrUpper(city_code)])

\* the operation has no except clause
search_cars_raises(e, city_code) == Raise("Exception", <<>>)

\* the placeholder returns an offer
search_cars_offer(e, city_code) == Ret(PyList(<<R1>>), <<>>)

\* a placeholder: no client is built, no call is made, None is returned
search_cars(e, city_code) == Ret(PyNone, <<>>)

search_activities(e, b, latitude, longitude) ==
    AmadeusCall(e, b, "shopping.activities",
                [latitude |-> latitude, longitude |-> longitude])

search_location(e, b, keyword) ==
    AmadeusCall(e, b, "reference_data.locations",
                [keyword |-> keyword, subType |-> "CITY,AIRPORT"])

(***************************************************************************)
(* Location matches the provider may return.                               *)
(***************************************************************************)
LatVals == {PyNone, PyNum(0), PyNum(48)}
LonVals == {PyNone, PyNum(0), PyNum(2)}

\* geoCode: null, not an object, or an object with any of the two keys
GeoCodeVals ==
    {PyNone, PyStr(<<"x">>)}
    \cup {PyDict(m) : m \in PartialMaps({"latitude", "longitude"},
                                        [latitude |-> LatVals, longitude |-> LonVals])}

Matches == {PyDict(m) : m \in PartialMaps({"geoCode"}, [geoCode |-> GeoCodeVals])}

\* the matches after the first: one with coordinates, one without
LaterMatches ==
    {PyDict([geoCode |-> PyDict([latitude |-> PyNum(48), longitude |-> PyNum(2)])]),
     PyDict(<<>>)}

LocationLists ==
    {<<>>} \cup {<<m>> \o rest : m \in Matches, rest \in SeqsUpTo(LaterMatches, MaxMatches - 1)}

LocationBehaviours ==
    Faults \cup {[kind |-> "data", data |-> d] : d \in {PyNone} \cup {PyList(l) : l \in LocationLists}}

(***************************************************************************)
(* Sherpa visa client.                                                     *)
(***************************************************************************)
VisaPayloads ==
    {PyNone, PyDict(<<>>),
     PyDict([visa |-> "Visa Not Required"]), PyDict([visa |-> "Visa Required"])}

\* requests.post(...) and raise_for_status(): a timeout, an HTTP error
\* status, another requests fault, an unexpected exception, or a JSON body
SherpaBehaviours ==
    {[kind |-> "Timeout"], [kind |-> "RequestException"], [kind |-> "Exception"]}
    \cup {[kind |-> "HTTPError", code |-> c] : c \in {401, 429, 500}}
    \cup {[kind |-> "json", data |-> d] : d \in VisaPayloads}

\* requests.exceptions.Timeout is not caught
get_visa_requirements_timeout(e, b, origin, destination, nationality) ==
    LET api_key == e.SHERPA_API_KEY
    IN  IF ~Truthy(api_key) THEN Raise("ValueError", <<>>)
        ELSE LET sent == <<[api |-> "POST /trips",
                            params |-> [origin |-> StrUpper(origin),
                                        destination |-> StrUpper(destination),
                                        nationality |-> StrUpper(nationality),
                                        bearer |-> api_key.v,
                                        timeout |-> 10],
                            outcome |-> b]>>
             IN  IF b.kind = "json" THEN Ret(b.data, sent)
                 ELSE IF b.kind = "Timeout" THEN Raise("Timeout", sent)
                 ELSE Ret(PyNone, sent)

\* a missing key is reported as no result, as the Amadeus operations do
get_visa_requirements_none(e, b, origin, destination, nationality) ==
    LET api_key == e.SHERPA_API_KEY
    IN  IF ~Truthy(api_key) THEN Ret(PyNone, <<>>)
        ELSE LET sent == <<[api |-> "POST /trips",
                            params |-> [origin |-> StrUpper(origin),
                                        destination |-> StrUpper(destination),
                                        nationality |-> StrUpper(nationality),
                                        bearer |-> api_key.v,
                                        timeout |-> 10],
                            outcome |-> b]>>
             IN  IF b.kind = "json" THEN Ret(b.data, sent) ELSE Ret(PyNone, sent)

get_visa_requirements(e, b, origin, destination, nationality) ==
    LET api_key == e.SHERPA_API_KEY
    IN  IF ~Truthy(api_key) THEN Raise("ValueError", <<>>)
        ELSE LET sent == <<[api |-> "POST /trips",
                            params |-> [origin |-> StrUpper(origin),
                                        destination |-> StrUpper(destination),
                                        nationality |-> StrUpper(nationality),
                                        bearer |-> api_key.v,
                                        timeout |-> 10],
                            outcome |-> b]>>
             IN  IF b.kind = "json" THEN Ret(b.data, sent) ELSE Ret(PyNone, sent)

(***************************************************************************)
(* GET /                                                                   *)
(***************************************************************************)
hello_world_run ==
    Run(Resp(200, PyDict([status |-> "active",
                          message |-> "Travel Agent Assistant API",
                          version |-> "1.0.0"])), <<>>, <<>>)

(***************************************************************************)
(* GET /api/flights                                                        *)
(***************************************************************************)
\* a gateway-style status in place of 500
InternalServerErrorBadGateway ==
    Resp(502, PyDict([error |-> "Internal server error",
                      message |-> Msg("An unexpected error occurred. Please try again later.", <<>>)]))

InternalServerError ==
    Resp(500, PyDict([error |-> "Internal server error",
                      message |-> Msg("An unexpected error occurred. Please try again later.", <<>>)]))

\* the body names no parameter list
FlightParamsMissingBodyNoList ==
    PyDict([error |-> "Missing required parameters"])

\* the 400 body of /api/flights
FlightParamsMissingBody ==
    PyDict([error |-> "Missing required parameters",
            required |-> <<"origin", "destination", "departure_date">>,
            optional |-> <<"adults">>])

\* not all([origin, destination, departure_date])
FlightParamsMissing(origin, destination, departure_date) ==
    ~All(<<origin, destination, departure_date>>)

\* `and` in place of `or`
DateFormatInvalidAnd(departure_date) ==
    Len(departure_date) # 10 /\ Count(departure_date, "-") # 2

\* len(departure_date) != 10 or departure_date.count('-') != 2
DateFormatInvalid(departure_date) ==
    Len(departure_date) # 10 \/ Count(departure_date, "-") # 2

api_search_flights_run(e, args, b) ==
    LET origin == ArgsGet(args, "origin")
        destination == ArgsGet(args, "destination")
        departure_date == ArgsGet(args, "departure_date")
        adults == ArgsGetInt(args, "adults", 1)
    IN  IF FlightParamsMissing(origin, destination, departure_date)
        THEN Run(Resp(400, FlightParamsMissingBody), <<>>, <<>>)
        ELSE IF DateFormatInvalid(departure_date.v)
        THEN Run(Resp(400, PyDict([error |-> "Invalid date format. Use YYYY-MM-DD format"])),
                 <<>>, <<>>)
        ELSE LET r == search_flights(e, b, origin.v, destination.v, departure_date.v, adults)
                 cc == <<Invoked("search_flights",
                                 <<origin.v, destination.v, departure_date.v, adults>>, r)>>
             IN  IF r.raised # ""
                 THEN Caught(r.raised, InternalServerError, cc, r.calls)
                 ELSE IF Truthy(r.ret)
                 THEN Run(Resp(200, r.ret), cc, r.calls)
                 ELSE Run(Resp(500, PyDict([error |-> "Could not retrieve flight offers",
                                            message |-> Msg("No flights available for the specified route and date. Try different dates or nearby airports.", <<>>)])),
                          cc, r.calls)

(***************************************************************************)
(* GET /api/nearest-airports                                               *)
(***************************************************************************)
\* `locations is None` in place of `not locations`
LocationNotFoundNone(locations) == locations.t = "None"

\* not locations
LocationNotFound(locations) == ~Truthy(locations)

\* the last match is taken
LastLocation(locations) == locations.v[Len(locations.v)]

\* locations[0]
FirstLocation(locations) == locations.v[1]

\* not locations[0].get('geoCode')
NoCoordinates(locations) == ~Truthy(DictGet(FirstLocation(locations), "geoCode"))

\* `and` in place of `or`
InvalidCoordinatesAnd(latitude, longitude) == ~Truthy(latitude) /\ ~Truthy(longitude)

\* only the latitude is checked
InvalidCoordinatesLat(latitude, longitude) == ~Truthy(latitude)

\* not latitude or not longitude
InvalidCoordinates(latitude, longitude) == ~Truthy(latitude) \/ ~Truthy(longitude)

api_get_nearest_airports_run(e, args, b1, b2) ==
    LET keyword == ArgsGet(args, "keyword")
    IN  IF ~Truthy(keyword)
        THEN Run(Resp(400, PyDict([error |-> "Missing required parameter: keyword",
                                   message |-> Msg("Please provide a location name (e.g., city or airport name)", <<>>)])),
                 <<>>, <<>>)
        ELSE
        LET r1 == search_location(e, b1, keyword.v)
            cc1 == <<Invoked("search_location", <<keyword.v>>, r1)>>
            locations == r1.ret
        IN  IF r1.raised # ""
            THEN Caught(r1.raised, InternalServerError, cc1, r1.calls)
            ELSE IF LocationNotFound(locations)
            THEN Run(Resp(404, PyDict([error |-> "Could not find location",
                                       message |-> Msg("No location found matching \"{}\". Try a different search term.", <<keyword.v>>)])),
                     cc1, r1.calls)
            ELSE IF locations.t # "list" \/ Len(locations.v) = 0
            THEN \* locations[0] raises TypeError or IndexError
                 Caught("IndexError", InternalServerError, cc1, r1.calls)
            ELSE IF NoCoordinates(locations)
            THEN Run(Resp(404, PyDict([error |-> "Location found but no coordinates available",
                                       message |-> Msg("The location was found but geographic coordinates are not available.", <<>>)])),
                     cc1, r1.calls)
            ELSE IF "geoCode" \notin DOMAIN FirstLocation(locations).v
            THEN \* locations[0]['geoCode'] raises KeyError
                 Caught("KeyError", InternalServerError, cc1, r1.calls)
            ELSE
            LET geo_code == FirstLocation(locations).v["geoCode"]
            IN  IF geo_code.t # "dict"
                THEN \* geo_code.get raises AttributeError
                     Caught("AttributeError", InternalServerError, cc1, r1.calls)
                ELSE
                LET latitude == DictGet(geo_code, "latitude")
                    longitude == DictGet(geo_code, "longitude")
                IN  IF InvalidCoordinates(latitude, longitude)
                    THEN Run(Resp(500, PyDict([error |-> "Invalid location coordinates"])),
                             cc1, r1.calls)
                    ELSE
                    LET r2 == get_nearest_airports(e, b2, latitude, longitude)
                        cc2 == Append(cc1, Invoked("get_nearest_airports", <<latitude, longitude>>, r2))
                    IN  IF r2.raised # ""
                        THEN Caught(r2.raised, InternalServerError, cc2, r1.calls \o r2.calls)
                        ELSE IF Truthy(r2.ret)
                        THEN Run(Resp(200, r2.ret), cc2, r1.calls \o r2.calls)
                        ELSE Run(Resp(500, PyDict([error |-> "Could not retrieve nearest airports",
                                                   message |-> Msg("No airports found near the specified location.", <<>>)])),
                                 cc2, r1.calls \o r2.calls)

(***************************************************************************)
(* GET /api/visa-requirements                                              *)
(***************************************************************************)
\* not all([origin, destination, nationality])
VisaParamsMissing(origin, destination, nationality) ==
    ~All(<<origin, destination, nationality>>)

\* the nationality is left out of the length check
CountryCodesInvalidTwo(origin, destination, nationality) ==
    ~(Len(origin) = 2 /\ Len(destination) = 2)

\* not all(len(code) == 2 for code in [origin, destination, nationality])
CountryCodesInvalid(origin, destination, nationality) ==
    ~(Len(origin) = 2 /\ Len(destination) = 2 /\ Len(nationality) = 2)

\* the API key is checked before the parameters
api_get_visa_requirements_run_keyfirst(e, args, b) ==
    LET origin == ArgsGet(args, "origin")
        destination == ArgsGet(args, "destination")
        nationality == ArgsGet(args, "nationality")
    IN  IF ~Truthy(e.SHERPA_API_KEY)
        THEN Caught("ValueError",
                    Resp(500, PyDict([error |-> "Configuration error",
                                      message |-> Msg("Sherpa API key is not configured. Please set SHERPA_API_KEY in your environment variables.", <<>>)])),
                    <<>>, <<>>)
        ELSE IF VisaParamsMissing(origin, destination, nationality)
        THEN Run(Resp(400, PyDict([error |-> "Missing required parameters",
                                   required |-> <<"origin", "destination", "nationality">>,
                                   message |-> Msg("All three parameters (origin, destination, nationality) are required. Use ISO country codes (e.g., US, FR, GB).", <<>>)])),
                 <<>>, <<>>)
        ELSE IF CountryCodesInvalid(origin.v, destination.v, nationality.v)
        THEN Run(Resp(400, PyDict([error |-> "Invalid country code format",
                                   message |-> Msg("Country codes must be 2-letter ISO codes (e.g., US, FR, GB)", <<>>)])),
                 <<>>, <<>>)
        ELSE
        LET r == get_visa_requirements(e, b, origin.v, destination.v, nationality.v)
            cc == <<Invoked("get_visa_requirements", <<origin.v, destination.v, nationality.v>>, r)>>
        IN  IF r.raised = "ValueError"
            THEN Caught("ValueError",
                        Resp(500, PyDict([error |-> "Configuration error",
                                       message |-> Msg("Sherpa API key is not configured. Please set SHERPA_API_KEY in your environment variables.", <<>>)])),
                        cc, r.calls)
            ELSE IF r.raised # ""
            THEN Caught(r.raised, InternalServerError, cc, r.calls)
            ELSE IF Truthy(r.ret)
            THEN Run(Resp(200, r.ret), cc, r.calls)
            ELSE Run(Resp(500, PyDict([error |-> "Could not retrieve visa information",
                                       message |-> Msg("Unable to fetch visa requirements. Please check your API key and try again.", <<>>)])),
                     cc, r.calls)

api_get_visa_requirements_run(e, args, b) ==
    LET origin == ArgsGet(args, "origin")
        destination == ArgsGet(args, "destination")
        nationality == ArgsGet(args, "nationality")
    IN  IF VisaParamsMissing(origin, destination, nationality)
        THEN Run(Resp(400, PyDict([error |-> "Missing required parameters",
                                   required |-> <<"origin", "destination", "nationality">>,
                                   message |-> Msg("All three parameters (origin, destination, nationality) are required. Use ISO country codes (e.g., US, FR, GB).", <<>>)])),
                 <<>>, <<>>)
        ELSE IF CountryCodesInvalid(origin.v, destination.v, nationality.v)
        THEN Run(Resp(400, PyDict([error |-> "Invalid country code format",
                                   message |-> Msg("Country codes must be 2-letter ISO codes (e.g., US, FR, GB)", <<>>)])),
                 <<>>, <<>>)
        ELSE
        LET r == get_visa_requirements(e, b, origin.v, destination.v, nationality.v)
            cc == <<Invoked("get_visa_requirements", <<origin.v, destination.v, nationality.v>>, r)>>
        IN  IF r.raised = "ValueError"
            THEN Caught("ValueError",
                        Resp(500, PyDict([error |-> "Configuration error",
                                       message |-> Msg("Sherpa API key is not configured. Please set SHERPA_API_KEY in your environment variables.", <<>>)])),
                        cc, r.calls)
            ELSE IF r.raised # ""
            THEN Caught(r.raised, InternalServerError, cc, r.calls)
            ELSE IF Truthy(r.ret)
            THEN Run(Resp(200, r.ret), cc, r.calls)
            ELSE Run(Resp(500, PyDict([error |-> "Could not retrieve visa information",
                                       message |-> Msg("Unable to fetch visa requirements. Please check your API key and try again.", <<>>)])),
                     cc, r.calls)

(***************************************************************************)
(* GET /api/hotels                                                         *)
(***************************************************************************)
api_search_hotels_run(e, args, b) ==
    LET city_code == ArgsGet(args, "city_code")
    IN  IF ~Truthy(city_code)
        THEN Run(Resp(400, PyDict([error |-> "Missing required parameter: city_code",
                                   message |-> Msg("Please provide an IATA city code (e.g., NYC, PAR, LON)", <<>>)])),
                 <<>>, <<>>)
        ELSE
        LET r == search_hotels(e, b, city_code.v)
            cc == <<Invoked("search_hotels", <<city_code.v>>, r)>>
        IN  IF r.raised # ""
            THEN Caught(r.raised, InternalServerError, cc, r.calls)
            ELSE IF Truthy(r.ret)
            THEN Run(Resp(200, r.ret), cc, r.calls)
            ELSE Run(Resp(500, PyDict([error |-> "Could not retrieve hotel offers",
                                       message |-> Msg("No hotels found for city code \"{}\". Try a different city code.", <<city_code.v>>)])),
                     cc, r.calls)

(***************************************************************************)
(* GET /api/cars                                                           *)
(***************************************************************************)
\* the search is made before city_code is checked
api_search_cars_run_eager(e, args) ==
    LET city_code == ArgsGet(args, "city_code")
        cars == search_cars(e, city_code)
        cc == <<Invoked("search_cars", <<city_code>>, cars)>>
    IN  IF ~Truthy(city_code)
        THEN Run(Resp(400, PyDict([error |-> "Missing required parameter: city_code"])), cc, cars.calls)
        ELSE IF cars.raised # ""
        THEN Uncaught(cars.raised, cc, cars.calls)
        ELSE IF Truthy(cars.ret)
        THEN Run(Resp(200, cars.ret), cc, cars.calls)
        ELSE Run(Resp(501, PyDict([error |-> "Car search not yet available"])), cc, cars.calls)

api_search_cars_run(e, args) ==
    LET city_code == ArgsGet(args, "city_code")
    IN  IF ~Truthy(city_code)
        THEN Run(Resp(400, PyDict([error |-> "Missing required parameter: city_code"])), <<>>, <<>>)
        ELSE
        LET cars == search_cars(e, city_code.v)
            cc == <<Invoked("search_cars", <<city_code.v>>, cars)>>
        IN  IF cars.raised # ""
            THEN \* the handler has no try block
                 Uncaught(cars.raised, cc, cars.calls)
            ELSE IF Truthy(cars.ret)
            THEN Run(Resp(200, cars.ret), cc, cars.calls)
            ELSE Run(Resp(501, PyDict([error |-> "Car search not yet available"])), cc, cars.calls)

(***************************************************************************)
(* GET /api/activities                                                     *)
(***************************************************************************)
api_search_activities_run(e, args, b1, b2) ==
    LET keyword == ArgsGet(args, "keyword")
    IN  IF ~Truthy(keyword)
        THEN Run(Resp(400, PyDict([error |-> "Missing required parameter: keyword",
                                   message |-> Msg("Please provide a location name to search for activities", <<>>)])),
                 <<>>, <<>>)
        ELSE
        LET r1 == search_location(e, b1, keyword.v)
            cc1 == <<Invoked("search_location", <<keyword.v>>, r1)>>
            locations == r1.ret
        IN  IF r1.raised # ""
            THEN Caught(r1.raised, InternalServerError, cc1, r1.calls)
            ELSE IF LocationNotFound(locations)
            THEN Run(Resp(404, PyDict([error |-> "Could not find location",
                                       message |-> Msg("No location found matching \"{}\". Try a different search term.", <<keyword.v>>)])),
                     cc1, r1.calls)
            ELSE IF locations.t # "list" \/ Len(locations.v) = 0
            THEN \* locations[0] raises TypeError or IndexError
                 Caught("IndexError", InternalServerError, cc1, r1.calls)
            ELSE IF NoCoordinates(locations)
            THEN Run(Resp(404, PyDict([error |-> "Location found but no coordinates available"])),
                     cc1, r1.calls)
            ELSE IF "geoCode" \notin DOMAIN FirstLocation(locations).v
            THEN \* locations[0]['geoCode'] raises KeyError
                 Caught("KeyError", InternalServerError, cc1, r1.calls)
            ELSE
            LET geo_code == FirstLocation(locations).v["geoCode"]
            IN  IF geo_code.t # "dict"
                THEN \* geo_code.get raises AttributeError
                     Caught("AttributeError", InternalServerError, cc1, r1.calls)
                ELSE
                LET latitude == DictGet(geo_code, "latitude")
                    longitude == DictGet(geo_code, "longitude")
                IN  IF InvalidCoordinates(latitude, longitude)
                    THEN Run(Resp(500, PyDict([error |-> "Invalid location coordinates"])),
                             cc1, r1.calls)
                    ELSE
                    LET r2 == search_activities(e, b2, latitude, longitude)
                        cc2 == Append(cc1, Invoked("search_activities", <<latitude, longitude>>, r2))
                    IN  IF r2.raised # ""
                        THEN Caught(r2.raised, InternalServerError, cc2, r1.calls \o r2.calls)
                        ELSE IF Truthy(r2.ret)
                        THEN Run(Resp(200, r2.ret), cc2, r1.calls \o r2.calls)
                        ELSE Run(Resp(500, PyDict([error |-> "Could not retrieve activities",
                                                   message |-> Msg("No activities found near \"{}\". Try a different location.", <<keyword.v>>)])),
                                 cc2, r1.calls \o r2.calls)

(***************************************************************************)
(* Requests.                                                               *)
(***************************************************************************)
Dates ==
    {<<>>,
     <<"2", "0", "2", "5", "-", "0", "6", "-", "1", "5">>,
     <<"2", "0", "2", "5", "/", "0", "6", "/", "1", "5">>,
     <<"2", "0", "2", "5", "-", "1", "3", "-", "4", "5">>,
     <<"2", "0", "2", "5", "-", "6", "-", "1", "5">>,
     <<"2", "0", "2", "5", "-", "0", "6", "-", "1", "5", "0">>,
     <<"2", "0", "-", "5", "-", "0", "6", "-", "1", "5">>,
     <<"2", "0", "2", "5", "0", "6", "1", "5", "-", "-">>,
     <<"2", "0", "2", "5", "-", "0", "6", "1", "5", "0">>}

FlightQueries ==
    PartialMaps({"origin", "destination", "departure_date", "adults"},
                [origin |-> {<<>>, <<"j", "f", "k">>},
                 destination |-> {<<>>, <<"L", "h", "r">>},
                 departure_date |-> Dates,
                 adults |-> {<<"2">>, <<"-", "1">>, <<"x">>, <<" ", "3">>}])

KeywordQueries ==
    PartialMaps({"keyword"}, [keyword |-> {<<>>, <<"P", "a", "r", "i", "s">>}])

VisaQueries ==
    PartialMaps({"origin", "destination", "nationality"},
                [origin |-> {<<>>, <<"u", "s">>, <<"U", "S", "A">>},
                 destination |-> {<<>>, <<"F", "r">>, <<"F">>},
                 nationality |-> {<<>>, <<"G", "B">>, <<"g", "b", "r">>}])

CityQueries ==
    PartialMaps({"city_code"}, [city_code |-> {<<>>, <<"n", "y", "c">>, <<"P", "A", "R">>}])

(***************************************************************************)
(* The state machine.  A worker handles one request at a time: a handler   *)
(* runs when no response is pending, and the framework then sends the      *)
(* response and is ready for the next request.                             *)
(***************************************************************************)
NoRequest == [endpoint |-> "", args |-> <<>>]
NoResponse == Resp(0, PyNone)

Init ==
    /\ env \in Envs
    /\ request = NoRequest
    /\ response = NoResponse
    /\ clientCalls = <<>>
    /\ calls = <<>>
    /\ raised = NoException

Handle(endpoint, args, run) ==
    /\ response = NoResponse
    /\ request' = [endpoint |-> endpoint, args |-> args]
    /\ response' = run.response
    /\ clientCalls' = run.clientCalls
    /\ calls' = run.calls
    /\ raised' = run.raised
    /\ UNCHANGED env

hello_world == Handle("/", <<>>, hello_world_run)

api_search_flights ==
    \E args \in FlightQueries, b \in DataBehaviours :
        Handle("/api/flights", args, api_search_flights_run(env, args, b))

api_get_nearest_airports ==
    \E args \in KeywordQueries, b1 \in LocationBehaviours, b2 \in DataBehaviours :
        Handle("/api/nearest-airports", args, api_get_nearest_airports_run(env, args, b1, b2))

api_get_visa_requirements ==
    \E args \in VisaQueries, b \in SherpaBehaviours :
        Handle("/api/visa-requirements", args, api_get_visa_requirements_run(env, args, b))

api_search_hotels ==
    \E args \in CityQueries, b \in DataBehaviours :
        Handle("/api/hotels", args, api_search_hotels_run(env, args, b))

api_search_cars ==
    \E args \in CityQueries :
        Handle("/api/cars", args, api_search_cars_run(env, args))

api_search_activities ==
    \E args \in KeywordQueries, b1 \in LocationBehaviours, b2 \in DataBehaviours :
        Handle("/api/activities", args, api_search_activities_run(env, args, b1, b2))

\* the framework sends the response; nothing of the request is kept
Reply ==
    /\ response # NoResponse
    /\ request' = NoRequest
    /\ response' = NoResponse
    /\ clientCalls' = <<>>
    /\ calls' = <<>>
    /\ raised' = NoException
    /\ UNCHANGED env

Next ==
    \/ hello_world
    \/ api_search_flights
    \/ api_get_nearest_airports
    \/ api_get_visa_requirements
    \/ api_search_hotels
    \/ api_search_cars
    \/ api_search_activities
    \/ Reply

Spec == Init /\ [][Next]_vars

(***************************************************************************)
(* Properties.                                                             *)
(***************************************************************************)
\* a request to endpoint ep has been handled and its response is pending
Handled(ep) == request.endpoint = ep /\ response # NoResponse

\* the response body is an object with an `error` field
HasError == response.body.t = "dict" /\ "error" \in DOMAIN response.body.v

\* parameter k of the request is absent or empty
Absent(k) == k \notin DOMAIN request.args \/ request.args[k] = <<>>

ChainedEndpoints == {"/api/nearest-airports", "/api/activities"}

RequiredParams ==
    [ep \in {"/api/flights", "/api/nearest-airports", "/api/visa-requirements",
             "/api/hotels", "/api/cars", "/api/activities"} |->
        CASE ep = "/api/flights" -> {"origin", "destination", "departure_date"}
          [] ep = "/api/visa-requirements" -> {"origin", "destination", "nationality"}
          [] ep \in ChainedEndpoints -> {"keyword"}
          [] OTHER -> {"city_code"}]

\* C1: on each of the six parameterised endpoints a request in which any
\* one required parameter is absent or empty gets status 400 and a body
\* with an `error` field, whatever the other parameters are.
C1_MissingParameter400 ==
    \A ep \in DOMAIN RequiredParams :
        (Handled(ep) /\ \E k \in RequiredParams[ep] : Absent(k))
            => (response.status = 400 /\ HasError)

\* /api/cars with its one required parameter present but empty
C1_Witness ==
    /\ Handled("/api/cars")
    /\ "city_code" \in DOMAIN request.args
    /\ request.args["city_code"] = <<>>
    /\ response.status = 400

\* the number of hyphens of a string
Hyphens(d) == Cardinality({i \in DOMAIN d : d[i] = "-"})

\* C2: on /api/flights with origin, destination and departure_date present,
\* the request is rejected with 400 exactly when departure_date is not 10
\* characters long or does not have exactly two hyphens; every other date
\* is dispatched to search_flights ("2025-06-15" and "2025-13-45" are,
\* "2025/06/15" is not).
C2_DateFormat ==
    (Handled("/api/flights") /\ \A k \in RequiredParams["/api/flights"] : ~Absent(k))
        => LET d == request.args["departure_date"]
               malformed == Len(d) # 10 \/ Hyphens(d) # 2
           IN  /\ response.status = 400 <=> malformed
               /\ malformed => clientCalls = <<>>
               /\ ~malformed => /\ Len(clientCalls) = 1
                                /\ clientCalls[1].op = "search_flights"
                                /\ clientCalls[1].args[3] = d
               /\ d = <<"2", "0", "2", "5", "-", "0", "6", "-", "1", "5">> => response.status # 400
               /\ d = <<"2", "0", "2", "5", "-", "1", "3", "-", "4", "5">> => response.status # 400
               /\ d = <<"2", "0", "2", "5", "/", "0", "6", "/", "1", "5">> => response.status = 400

\* a date with month 13 and day 45 is dispatched
C2_Witness ==
    /\ Handled("/api/flights")
    /\ "departure_date" \in DOMAIN request.args
    /\ request.args["departure_date"] = <<"2", "0", "2", "5", "-", "1", "3", "-", "4", "5">>
    /\ Len(clientCalls) = 1
    /\ clientCalls[1].op = "search_flights"
    /\ response.status # 400

\* C3: on /api/visa-requirements, if any of origin, destination or
\* nationality has a length other than 2 the response is 400 and the visa
\* client is not called; if all three have length 2 the visa client is
\* called.
C3_CountryCodeLength ==
    Handled("/api/visa-requirements")
        => LET ks == RequiredParams["/api/visa-requirements"]
               twoLetters == \A k \in ks : k \in DOMAIN request.args /\ Len(request.args[k]) = 2
           IN  /\ ~twoLetters => (response.status = 400 /\ clientCalls = <<>> /\ calls = <<>>)
               /\ twoLetters => /\ Len(clientCalls) = 1
                                /\ clientCalls[1].op = "get_visa_requirements"
                                /\ response.status # 400

\* "USA" as origin with two valid codes is rejected
C3_Witness ==
    /\ Handled("/api/visa-requirements")
    /\ DOMAIN request.args = {"origin", "destination", "nationality"}
    /\ request.args["origin"] = <<"U", "S", "A">>
    /\ Len(request.args["destination"]) = 2
    /\ Len(request.args["nationality"]) = 2
    /\ response.status = 400
    /\ clientCalls = <<>>

\* the value search_location returned to the gateway
Locations == clientCalls[1].ret

\* a chained-lookup request with a non-empty keyword has been handled
ChainedHandled ==
    /\ \E ep \in ChainedEndpoints : Handled(ep)
    /\ ~Absent("keyword")

\* the location search returned at least one match
HasMatch == Locations.t = "list" /\ Locations.v # <<>>

FirstMatch == Locations.v[1].v

\* C4: on both chained-lookup endpoints with a non-empty keyword, if the
\* location search returns an empty list, or its first match has no
\* geoCode, the response is 404 and the dependent search is never called.
C4_NoLocation404 ==
    (ChainedHandled /\ (Locations = PyList(<<>>) \/ (HasMatch /\ "geoCode" \notin DOMAIN FirstMatch)))
        => /\ response.status = 404
           /\ Len(clientCalls) = 1
           /\ clientCalls[1].op = "search_location"
           /\ Len(calls) = 1

\* the first match has no geoCode although a later one has coordinates
C4_Witness ==
    /\ ChainedHandled
    /\ HasMatch
    /\ "geoCode" \notin DOMAIN FirstMatch
    /\ Len(Locations.v) > 1
    /\ "geoCode" \in DOMAIN Locations.v[2].v
    /\ response.status = 404

\* coordinate c of the first match's geoCode is falsy or absent
Unusable(c) ==
    LET geo == FirstMatch["geoCode"]
    IN  geo.t # "dict" \/ c \notin DOMAIN geo.v \/ geo.v[c] = PyNone \/ geo.v[c] = PyNum(0)

\* the first match has a geoCode (not null) with an unusable coordinate
UnusableCoordinates ==
    /\ ChainedHandled
    /\ HasMatch
    /\ "geoCode" \in DOMAIN FirstMatch
    /\ FirstMatch["geoCode"] # PyNone
    /\ Unusable("latitude") \/ Unusable("longitude")

\* C5 as stated: whenever the first match has a geoCode present but its
\* latitude or longitude is falsy or absent (a missing key, null, or 0),
\* the response is 500 and the dependent search is not called.
C5_AsStated ==
    UnusableCoordinates => (response.status = 500 /\ Len(clientCalls) = 1)

\* C5 amended: whenever the first match has a non-empty geoCode whose
\* latitude or longitude is falsy or absent, the response is 500 and the
\* dependent search is not called; an empty geoCode object counts as no
\* coordinates and gets 404, the dependent search not being called either.
C5_InvalidCoordinates500 ==
    UnusableCoordinates
        => /\ Len(clientCalls) = 1
           /\ response.status = IF FirstMatch["geoCode"] = PyDict(<<>>) THEN 404 ELSE 500

\* latitude 48 with the longitude key missing
C5_Witness ==
    /\ UnusableCoordinates
    /\ FirstMatch["geoCode"] = PyDict([latitude |-> PyNum(48)])
    /\ response.status = 500
    /\ Len(clientCalls) = 1

\* the last client operation the gateway invoked, and the last provider call
LastInvoked == clientCalls[Len(clientCalls)]
LastCall == calls[Len(calls)]

FinalOps ==
    {"search_flights", "search_hotels", "get_visa_requirements",
     "get_nearest_airports", "search_activities"}

\* a value that is neither null nor empty
NonEmpty(x) == x # PyNone /\ x # PyList(<<>>) /\ x # PyDict(<<>>)

\* C6: on every endpoint, when validation passes and the final upstream
\* call (flight, hotel, visa, or the dependent airport / activity search)
\* returns a non-empty, non-null result, the response is 200 and its body
\* is exactly that result: what the provider sent and the client returned,
\* with no element added, removed, reordered or changed.
C6_ResultPassedThrough ==
    (/\ response # NoResponse
     /\ clientCalls # <<>>
     /\ LastInvoked.op \in FinalOps
     /\ LastInvoked.raised = ""
     /\ NonEmpty(LastInvoked.ret))
        => /\ response.status = 200
           /\ response.body = LastInvoked.ret
           /\ calls # <<>>
           /\ LastCall.outcome.kind \in {"data", "json"}
           /\ response.body = LastCall.outcome.data

\* a two-element airport list comes back in the provider's order
C6_Witness ==
    /\ Handled("/api/nearest-airports")
    /\ Len(clientCalls) = 2
    /\ LastInvoked.op = "get_nearest_airports"
    /\ Len(calls) = 2
    /\ LastCall.outcome = [kind |-> "data", data |-> PyList(<<R2, R1>>)]
    /\ response = Resp(200, PyList(<<R2, R1>>))

SearchOps == FinalOps \cup {"search_location"}

\* client invocation i returned an empty or null result
ReturnedNothing(i) ==
    /\ clientCalls[i].op \in SearchOps
    /\ clientCalls[i].raised = ""
    /\ ~NonEmpty(clientCalls[i].ret)

\* C7 as stated: whenever any upstream search call made for the request
\* (flight, hotel, visa, location, nearest-airport or activity search)
\* returns an empty or null result, the response is 500 with an `error`
\* field, and is never 200.
C7_AsStated ==
    (response # NoResponse /\ \E i \in DOMAIN clientCalls : ReturnedNothing(i))
        => (response.status = 500 /\ HasError)

\* C7 amended: whenever an upstream search call made for the request
\* returns an empty or null result, the response has an `error` field and
\* is never 200: its status is 404 when the call is the location search of
\* a chained lookup, and 500 for every other search.
C7_EmptyResultIsError ==
    response # NoResponse
        => \A i \in DOMAIN clientCalls :
              ReturnedNothing(i)
                  => /\ HasError
                     /\ response.status # 200
                     /\ response.status =
                            IF clientCalls[i].op = "search_location" THEN 404 ELSE 500

\* the activity search returns an empty list after a usable location match
C7_Witness ==
    /\ Handled("/api/activities")
    /\ Len(clientCalls) = 2
    /\ LastInvoked.op = "search_activities"
    /\ Len(calls) = 2
    /\ LastCall.outcome = [kind |-> "data", data |-> PyList(<<>>)]
    /\ response.status = 500

AllSet(e) ==
    /\ e.AMADEUS_CLIENT_ID = PyStr(<<"k">>)
    /\ e.AMADEUS_CLIENT_SECRET = PyStr(<<"k">>)
    /\ e.SHERPA_API_KEY = PyStr(<<"k">>)

\* C8: on /api/cars every request with a non-empty city_code gets status
\* 501, whatever the city_code and the credentials; the 200 branch is never
\* taken, because search_cars always reports no result and calls no
\* provider.
C8_CarsAlways501 ==
    Handled("/api/cars")
        => /\ response.status # 200
           /\ ~Absent("city_code")
                 => /\ response.status = 501
                    /\ Len(clientCalls) = 1
                    /\ clientCalls[1].op = "search_cars"
                    /\ clientCalls[1].ret = PyNone
                    /\ calls = <<>>

\* a city code with every credential configured
C8_Witness ==
    /\ Handled("/api/cars")
    /\ ~Absent("city_code")
    /\ AllSet(env)
    /\ response.status = 501

\* the three visa parameters are present with two characters each
ValidVisaCodes ==
    \A k \in RequiredParams["/api/visa-requirements"] :
        k \in DOMAIN request.args /\ Len(request.args[k]) = 2

\* C9: on /api/visa-requirements with three two-character codes, if the
\* visa client raises the configuration fault (SHERPA_API_KEY missing or
\* empty), the response is 500 and its `error` field is "Configuration
\* error", neither "Internal server error" nor "Could not retrieve visa
\* information".
C9_ConfigurationError ==
    (/\ Handled("/api/visa-requirements")
     /\ ValidVisaCodes
     /\ \/ env.SHERPA_API_KEY \in {PyNone, PyStr(<<>>)}
        \/ clientCalls # <<>> /\ clientCalls[1].raised = "ValueError")
        => /\ response.status = 500
           /\ HasError
           /\ response.body.v.error = "Configuration error"
           /\ Len(clientCalls) = 1
           /\ clientCalls[1].raised = "ValueError"
           /\ calls = <<>>

\* an empty SHERPA_API_KEY
C9_Witness ==
    /\ Handled("/api/visa-requirements")
    /\ ValidVisaCodes
    /\ env.SHERPA_API_KEY = PyStr(<<>>)
    /\ response.status = 500
    /\ response.body.v.error = "Configuration error"

IsLower(c) == \E j \in DOMAIN Lower : Lower[j] = c

\* sent is orig with each lowercase letter replaced by its capital and
\* nothing else changed
UppercaseOf(sent, orig) ==
    /\ Len(sent) = Len(orig)
    /\ \A i \in DOMAIN sent :
          /\ ~IsLower(sent[i])
          /\ \/ sent[i] = orig[i]
             \/ \E j \in DOMAIN Lower : Lower[j] = orig[i] /\ Upper[j] = sent[i]

\* C10: every country, city or airport code that reaches an upstream call
\* (flight origin and destination, hotel city code, the three visa codes)
\* is transmitted in uppercase whatever casing the caller used, and
\* uppercasing is the only change made to it.
C10_CodesUppercased ==
    /\ Handled("/api/flights") =>
          \A i \in DOMAIN calls :
              /\ UppercaseOf(calls[i].params.originLocationCode, request.args["origin"])
              /\ UppercaseOf(calls[i].params.destinationLocationCode, request.args["destination"])
    /\ Handled("/api/hotels") =>
          \A i \in DOMAIN calls :
              UppercaseOf(calls[i].params.cityCode, request.args["city_code"])
    /\ Handled("/api/visa-requirements") =>
          \A i \in DOMAIN calls :
              /\ UppercaseOf(calls[i].params.origin, request.args["origin"])
              /\ UppercaseOf(calls[i].params.destination, request.args["destination"])
              /\ UppercaseOf(calls[i].params.nationality, request.args["nationality"])

\* "jfk" and "Lhr" reach the provider as "JFK" and "LHR"
C10_Witness ==
    /\ Handled("/api/flights")
    /\ Len(calls) = 1
    /\ request.args["origin"] = <<"j", "f", "k">>
    /\ request.args["destination"] = <<"L", "h", "r">>
    /\ calls[1].params.originLocationCode = <<"J", "F", "K">>
    /\ calls[1].params.destinationLocationCode = <<"L", "H", "R">>

(***************************************************************************)
(* Status codes and upstream calls per request                             *)
(***************************************************************************)
\* the statuses each endpoint may answer with
StatusSets ==
    [ep \in {"/", "/api/flights", "/api/nearest-airports", "/api/visa-requirements",
             "/api/hotels", "/api/cars", "/api/activities"} |->
        CASE ep = "/" -> {200}
          [] ep \in ChainedEndpoints -> {200, 400, 404, 500}
          [] ep = "/api/cars" -> {400, 501}
          [] OTHER -> {200, 400, 500}]

\* C11: for every request and every behaviour of the providers the status
\* of the response lies in the set enumerated for its endpoint: flights,
\* visa-requirements and hotels in {200,400,500}; nearest-airports and
\* activities in {200,400,404,500}; cars in {400,501}; / always 200.
C11_StatusSets ==
    \A ep \in DOMAIN StatusSets :
        Handled(ep) => response.status \in StatusSets[ep]

\* a chained lookup whose first match has a geoCode that is not an object:
\* the handler's except clause answers
C11_Witness ==
    /\ Handled("/api/activities")
    /\ raised.exc = "AttributeError"
    /\ response.status = 500

DependentOps == {"get_nearest_airports", "search_activities"}

\* the coordinates of the first match, as the handler reads them
FirstLatitude == DictGet(FirstMatch["geoCode"], "latitude")
FirstLongitude == DictGet(FirstMatch["geoCode"], "longitude")

\* C12: a request leads to at most two upstream calls, and to two only on
\* the chained-lookup endpoints: the first is the location search, the
\* second the dependent search, issued after the location search returned
\* and only with the truthy latitude and longitude of its first match;
\* every other endpoint makes at most one upstream call.
C12_AtMostTwoCalls ==
    response # NoResponse =>
        /\ Len(clientCalls) <= 2
        /\ Len(calls) <= Len(clientCalls)
        /\ request.endpoint \notin ChainedEndpoints => Len(clientCalls) <= 1
        /\ \A i \in DOMAIN clientCalls :
               clientCalls[i].op \in DependentOps
                   => /\ i = 2
                      /\ request.endpoint \in ChainedEndpoints
                      /\ clientCalls[1].op = "search_location"
                      /\ clientCalls[1].raised = ""
                      /\ HasMatch
                      /\ "geoCode" \in DOMAIN FirstMatch
                      /\ FirstMatch["geoCode"].t = "dict"
                      /\ Truthy(FirstLatitude)
                      /\ Truthy(FirstLongitude)
                      /\ clientCalls[2].args = <<FirstLatitude, FirstLongitude>>
        /\ Len(clientCalls) = 2 => clientCalls[2].op \in DependentOps
        /\ Len(calls) = 2
               => /\ calls[1].api = "reference_data.locations"
                  /\ calls[2].api \in {"reference_data.locations.airports",
                                       "shopping.activities"}

\* both provider calls of a nearest-airports request were made
C12_Witness ==
    /\ Handled("/api/nearest-airports")
    /\ Len(clientCalls) = 2
    /\ Len(calls) = 2
    /\ clientCalls[2].args = <<PyNum(48), PyNum(2)>>

(***************************************************************************)
(* The client operations: attempts and failures                            *)
(***************************************************************************)
\* how many provider calls of the request went to api
Attempts(api) == Cardinality({i \in DOMAIN calls : calls[i].api = api})

\* how many times the handler invoked client operation op
Invocations(op) == Cardinality({i \in DOMAIN clientCalls : clientCalls[i].op = op})

\* provider call i ended in a fault
Faulted(i) == calls[i].outcome.kind \notin {"data", "json"}

\* C13: no retries: for one request every client operation is invoked at
\* most once and makes at most one attempt against its provider; after a
\* fault (provider error, rate limit, timeout, network fault, unexpected
\* fault) no further attempt follows.
C13_NoRetries ==
    response # NoResponse =>
        /\ \A i \in DOMAIN clientCalls : Invocations(clientCalls[i].op) = 1
        /\ \A i \in DOMAIN calls : Attempts(calls[i].api) = 1
        /\ Len(calls) <= Len(clientCalls)
        /\ \A i \in DOMAIN calls : Faulted(i) => i = Len(calls)

\* a flight search that the provider answered with 429
C13_Witness ==
    /\ Handled("/api/flights")
    /\ Len(clientCalls) = 1
    /\ Len(calls) = 1
    /\ calls[1].outcome = [kind |-> "ResponseError", code |-> 429]
    /\ response.status = 500

TravelOps ==
    {"search_flights", "get_nearest_airports", "search_hotels",
     "search_activities", "search_location", "search_cars"}

\* AMADEUS_CLIENT_ID or AMADEUS_CLIENT_SECRET is missing or empty
AmadeusCredentialsMissing ==
    ~Truthy(env.AMADEUS_CLIENT_ID) \/ ~Truthy(env.AMADEUS_CLIENT_SECRET)

\* C14: no travel-client operation raises to the gateway: with a missing or
\* empty credential, a failed client construction, a provider error or an
\* unexpected fault it returns None; only the visa client raises, and only
\* the configuration fault.
C14_TravelClientNeverRaises ==
    \A i \in DOMAIN clientCalls :
        LET c == clientCalls[i]
        IN  IF c.op \in TravelOps
            THEN /\ c.raised = ""
                 /\ AmadeusCredentialsMissing => (c.ret = PyNone /\ calls = <<>>)
                 /\ i > Len(calls) => c.ret = PyNone
                 /\ (i <= Len(calls) /\ Faulted(i)) => c.ret = PyNone
            ELSE /\ c.op = "get_visa_requirements"
                 /\ c.raised \in {"", "ValueError"}
                 /\ c.raised = "ValueError" <=> ~Truthy(env.SHERPA_API_KEY)

\* a hotel search with the client secret empty: the operation returned None
C14_Witness ==
    /\ Handled("/api/hotels")
    /\ env.AMADEUS_CLIENT_ID = PyStr(<<"k">>)
    /\ env.AMADEUS_CLIENT_SECRET = PyStr(<<>>)
    /\ Len(clientCalls) = 1
    /\ clientCalls[1].ret = PyNone
    /\ clientCalls[1].raised = ""
    /\ raised = NoException

\* C15: with an API key the visa client makes exactly one upstream call,
\* with timeout 10, and returns the provider's payload on success and None
\* on a timeout, an HTTP error, a network fault or an unexpected fault,
\* without raising; with a missing or empty key it raises the
\* configuration fault and makes no upstream call.
C15_VisaClient ==
    \A i \in DOMAIN clientCalls :
        clientCalls[i].op = "get_visa_requirements"
            => IF Truthy(env.SHERPA_API_KEY)
               THEN /\ Len(calls) = 1
                    /\ calls[1].api = "POST /trips"
                    /\ calls[1].params.timeout = 10
                    /\ clientCalls[i].raised = ""
                    /\ clientCalls[i].ret =
                           IF calls[1].outcome.kind = "json"
                           THEN calls[1].outcome.data ELSE PyNone
               ELSE /\ clientCalls[i].raised = "ValueError"
                    /\ calls = <<>>

\* a visa lookup that timed out: one call, None returned, nothing raised
C15_Witness ==
    /\ Handled("/api/visa-requirements")
    /\ Len(calls) = 1
    /\ calls[1].outcome.kind = "Timeout"
    /\ clientCalls[1].ret = PyNone
    /\ clientCalls[1].raised = ""

(***************************************************************************)
(* Missing credentials and the bodies of the 400 responses                 *)
(***************************************************************************)
AmadeusEndpoints ==
    {"/api/flights", "/api/hotels", "/api/nearest-airports", "/api/activities"}

\* the credentials of the provider the endpoint depends on are missing
CredentialsMissing(ep) ==
    IF ep = "/api/visa-requirements" THEN ~Truthy(env.SHERPA_API_KEY)
    ELSE AmadeusCredentialsMissing

\* C16: on every endpoint that calls an upstream provider (flights, hotels,
\* nearest-airports, activities, visa-requirements) a request that passes
\* validation while the credentials of its provider are missing gets status
\* 500, never 200 or 404.
C16_AsStated ==
    \A ep \in AmadeusEndpoints \cup {"/api/visa-requirements"} :
        (Handled(ep) /\ response.status # 400 /\ CredentialsMissing(ep))
            => response.status = 500

\* the parameter names a 400 body lists under key k
Listed(k) ==
    IF response.body.t = "dict" /\ k \in DOMAIN response.body.v
    THEN {response.body.v[k][i] : i \in DOMAIN response.body.v[k]}
    ELSE {}

\* a required parameter of endpoint ep is absent or empty
MissingRequired(ep) == Handled(ep) /\ \E k \in RequiredParams[ep] : Absent(k)

\* C17 as stated: on every endpoint with required parameters the 400
\* response to a request with a missing required parameter carries an
\* enumerated list of the endpoint's required parameter names, and of its
\* optional ones where they exist.
C17_AsStated ==
    \A ep \in DOMAIN RequiredParams :
        MissingRequired(ep)
            => /\ Listed("required") = RequiredParams[ep]
               /\ ep = "/api/flights" => Listed("optional") = {"adults"}

ListingEndpoints == {"/api/flights", "/api/visa-requirements"}

\* C17: the 400 response to a missing required parameter lists the required
\* parameter names on /api/flights (with the optional `adults`) and on
\* /api/visa-requirements; on nearest-airports, hotels, cars and activities,
\* which have one required parameter, the body carries no list and names
\* the parameter in its `error` string.
C17_ParameterNames ==
    \A ep \in DOMAIN RequiredParams :
        MissingRequired(ep)
            => /\ response.status = 400
               /\ HasError
               /\ IF ep \in ListingEndpoints
                  THEN /\ Listed("required") = RequiredParams[ep]
                       /\ Listed("optional") =
                              IF ep = "/api/flights" THEN {"adults"} ELSE {}
                  ELSE /\ Listed("required") = {}
                       /\ Listed("optional") = {}
                       /\ response.body.v.error =
                              IF ep \in ChainedEndpoints
                              THEN "Missing required parameter: keyword"
                              ELSE "Missing required parameter: city_code"

\* a flight search without destination: the body lists the three names
C17_Witness ==
    /\ Handled("/api/flights")
    /\ Absent("destination")
    /\ ~Absent("origin")
    /\ response.status = 400
    /\ Listed("required") = {"origin", "destination", "departure_date"}

(***************************************************************************)
(* What the caller sees of a fault                                         *)
(***************************************************************************)
SherpaFaults == {b \in SherpaBehaviours : b.kind # "json"}

\* the client operation invoked last failed: its provider call ended in a
\* fault, or it made none because the client could not be built
FaultedRun ==
    /\ response # NoResponse
    /\ clientCalls # <<>>
    /\ LastInvoked.op # "search_cars"
    /\ \/ Len(calls) < Len(clientCalls)
       \/ Faulted(Len(calls))

\* the faults the failed operation could have met instead
OtherFaults ==
    IF request.endpoint = "/api/visa-requirements" THEN SherpaFaults ELSE Faults

\* the same request handled again, under the same credentials and the same
\* results of the calls that succeeded, with fault f in place of the fault
\* the failed operation met
Rerun(f) ==
    CASE request.endpoint = "/api/flights" ->
             api_search_flights_run(env, request.args, f)
      [] request.endpoint = "/api/hotels" ->
             api_search_hotels_run(env, request.args, f)
      [] request.endpoint = "/api/visa-requirements" ->
             api_get_visa_requirements_run(env, request.args, f)
      [] request.endpoint = "/api/nearest-airports" ->
             IF Len(clientCalls) = 1
             THEN api_get_nearest_airports_run(env, request.args, f, f)
             ELSE api_get_nearest_airports_run(env, request.args, calls[1].outcome, f)
      [] request.endpoint = "/api/activities" ->
             IF Len(clientCalls) = 1
             THEN api_search_activities_run(env, request.args, f, f)
             ELSE api_search_activities_run(env, request.args, calls[1].outcome, f)

\* the values interpolated into the strings of the response body
Interpolated ==
    IF response.body.t = "dict" /\ "message" \in DOMAIN response.body.v
    THEN {response.body.v.message.fargs[i] : i \in DOMAIN response.body.v.message.fargs}
    ELSE {}

\* the keyword or city code the caller sent
CallerText ==
    {request.args[k] : k \in DOMAIN request.args \cap {"keyword", "city_code"}}

\* C18 as stated: two runs of the same request that differ only in the
\* fault an upstream client met get the same status and body, and every
\* error message is a fixed string determined by the endpoint and the
\* failure class, with nothing interpolated.
C18_AsStated ==
    /\ FaultedRun => \A f \in OtherFaults : Rerun(f).response = response
    /\ (response # NoResponse /\ HasError) => Interpolated = {}

\* C18: two runs of the same request that differ only in the fault an
\* upstream client met get the same status and body; every error message
\* is a fixed text determined by the endpoint and the failure class, into
\* which nothing but the keyword or city code of the request itself is
\* interpolated.
C18_NoUpstreamText ==
    /\ FaultedRun => \A f \in OtherFaults : Rerun(f).response = response
    /\ (response # NoResponse /\ HasError) => Interpolated \subseteq CallerText

\* a hotel search the provider answered with an error: the message quotes
\* the city code of the request
C18_Witness ==
    /\ Handled("/api/hotels")
    /\ FaultedRun
    /\ Len(calls) = 1
    /\ calls[1].outcome = [kind |-> "ResponseError", code |-> 500]
    /\ response.status = 500
    /\ Interpolated = {request.args["city_code"]}

(***************************************************************************)
(* Exceptions that reach a handler                                         *)
(***************************************************************************)
\* the one exception a handler answers with a message of its own
VisaConfigurationFault ==
    request.endpoint = "/api/visa-requirements" /\ raised.exc = "ValueError"

\* C19: on every endpoint an exception that reaches the handler while a
\* request is handled, other than the configuration fault of the visa
\* path, yields status 500 with `error` equal to "Internal server error";
\* no exception leaves a handler for the web framework.
C19_InternalServerError ==
    /\ ~raised.escaped
    /\ (raised.exc # "" /\ ~VisaConfigurationFault)
           => /\ response.status = 500
              /\ HasError
              /\ response.body.v.error = "Internal server error"

\* the first match of a nearest-airports lookup has a geoCode that is a
\* string: reading its latitude raises in the handler
C19_Witness ==
    /\ Handled("/api/nearest-airports")
    /\ Len(clientCalls) = 1
    /\ HasMatch
    /\ "geoCode" \in DOMAIN FirstMatch
    /\ FirstMatch["geoCode"] = PyStr(<<"x">>)
    /\ raised = [exc |-> "AttributeError", escaped |-> FALSE]
    /\ response = InternalServerError

(***************************************************************************)
(* Which match and which parameters are used                               *)
(***************************************************************************)
\* the first match has a geoCode object with a truthy latitude and longitude
FirstUsable ==
    /\ "geoCode" \in DOMAIN FirstMatch
    /\ FirstMatch["geoCode"].t = "dict"
    /\ Truthy(FirstLatitude)
    /\ Truthy(FirstLongitude)

\* C21: a chained lookup uses only the first location match: the latitude
\* and longitude passed to the dependent search are exactly those of the
\* first match's geoCode, and when the first match has no usable geoCode
\* the request fails without a dependent search, even if a later match
\* carries valid coordinates.
C21_FirstMatchOnly ==
    (ChainedHandled /\ clientCalls # <<>> /\ HasMatch)
        => IF FirstUsable
           THEN /\ Len(clientCalls) = 2
                /\ clientCalls[2].op \in DependentOps
                /\ clientCalls[2].args = <<FirstLatitude, FirstLongitude>>
           ELSE /\ Len(clientCalls) = 1
                /\ response.status \in {404, 500}
                /\ HasError

\* the first match has no geoCode, the second has valid coordinates: 404
C21_Witness ==
    /\ Handled("/api/activities")
    /\ Len(clientCalls) = 1
    /\ HasMatch
    /\ Len(Locations.v) = 2
    /\ FirstMatch = <<>>
    /\ Locations.v[2] =
           PyDict([geoCode |-> PyDict([latitude |-> PyNum(48), longitude |-> PyNum(2)])])
    /\ response.status = 404

\* the passenger count int() reads from the adults values a request may
\* carry; 1 stands for a value int() rejects
AdultsRead ==
    IF "adults" \notin DOMAIN request.args THEN 1
    ELSE CASE request.args["adults"] = <<"2">> -> 2
           [] request.args["adults"] = <<"-", "1">> -> 0 - 1
           [] request.args["adults"] = <<" ", "3">> -> 3
           [] OTHER -> 1

\* C22: on /api/flights search_flights is called with a passenger count of
\* 1 when adults is omitted or is not parseable as an integer, and with
\* exactly the parsed value otherwise, no range check applied ("-1" gives
\* -1); origin, destination and departure_date are passed as received.
C22_AdultsDefault ==
    (Handled("/api/flights") /\ clientCalls # <<>>)
        => /\ clientCalls[1].op = "search_flights"
           /\ clientCalls[1].args =
                  <<request.args["origin"], request.args["destination"],
                    request.args["departure_date"], AdultsRead>>
           /\ calls # <<>>
                  => /\ calls[1].params.adults = AdultsRead
                     /\ calls[1].params.departureDate = request.args["departure_date"]

\* adults=x: the flight search is made for one passenger
C22_Witness ==
    /\ Handled("/api/flights")
    /\ "adults" \in DOMAIN request.args
    /\ request.args["adults"] = <<"x">>
    /\ Len(calls) = 1
    /\ clientCalls[1].args[4] = 1
    /\ calls[1].params.adults = 1

(***************************************************************************)
(* Validation comes first                                                  *)
(***************************************************************************)
\* the gateway's validation rejects the request: a required parameter is
\* missing or empty, the flight date is malformed, or a visa code has a
\* length other than 2
Rejected ==
    /\ request.endpoint \in DOMAIN RequiredParams
    /\ response # NoResponse
    /\ \/ \E k \in RequiredParams[request.endpoint] : Absent(k)
       \/ /\ request.endpoint = "/api/flights"
          /\ LET d == request.args["departure_date"]
             IN  Len(d) # 10 \/ Hyphens(d) # 2
       \/ /\ request.endpoint = "/api/visa-requirements"
          /\ \E k \in RequiredParams[request.endpoint] : Len(request.args[k]) # 2

\* C23: a request that the gateway's validation rejects causes no upstream
\* client call: the response is 400 and no travel-client or visa-client
\* operation was invoked, and no provider was called, before it; and every
\* 400 response is such a rejection.
C23_RejectedWithoutCalls ==
    /\ Rejected => (response.status = 400 /\ clientCalls = <<>> /\ calls = <<>>)
    /\ (response # NoResponse /\ response.status = 400)
           => (Rejected /\ clientCalls = <<>> /\ calls = <<>>)

\* a flight search with a malformed date and every credential configured
C23_Witness ==
    /\ Handled("/api/flights")
    /\ AllSet(env)
    /\ ~Absent("origin")
    /\ ~Absent("destination")
    /\ ~Absent("departure_date")
    /\ request.args["departure_date"] = <<"2", "0", "2", "5", "/", "0", "6", "/", "1", "5">>
    /\ response.status = 400
    /\ clientCalls = <<>>

\* C24: on /api/visa-requirements the checks come in a fixed order: the
\* missing-parameter check, then the code-length check, then the credential
\* check inside the visa client.  A request with a missing parameter gets
\* the 400 of the first check and one with a code of length other than 2
\* the 400 of the second, also when the API key is not configured; the
\* "Configuration error" 500 is given only to requests that pass both.
C24_VisaCheckOrder ==
    Handled("/api/visa-requirements")
        => LET ks == RequiredParams["/api/visa-requirements"]
               missing == \E k \in ks : Absent(k)
               badLength == ~missing /\ \E k \in ks : Len(request.args[k]) # 2
           IN  /\ missing => /\ response.status = 400
                             /\ HasError
                             /\ response.body.v.error = "Missing required parameters"
                             /\ clientCalls = <<>>
               /\ badLength => /\ response.status = 400
                               /\ HasError
                               /\ response.body.v.error = "Invalid country code format"
                               /\ clientCalls = <<>>
               /\ (HasError /\ response.body.v.error = "Configuration error")
                      => /\ ~missing
                         /\ ~badLength
                         /\ ~Truthy(env.SHERPA_API_KEY)
                         /\ Len(clientCalls) = 1

\* no API key and a three-letter origin: the length check answers
C24_Witness ==
    /\ Handled("/api/visa-requirements")
    /\ env.SHERPA_API_KEY = PyNone
    /\ \A k \in RequiredParams["/api/visa-requirements"] : ~Absent(k)
    /\ request.args["origin"] = <<"U", "S", "A">>
    /\ response.status = 400
    /\ response.body.v.error = "Invalid country code format"

====
